---- MODULE Spec2Model ----
(***************************************************************************)
(* Model of utils_signal/utils_signal.py: the peak detector detect_peaks   *)
(* and the two callers built on it, is_ecg_signal and wavelet_denoise.     *)
(*                                                                         *)
(* Every function is a pure function of its arguments, so a behaviour is   *)
(* one call: Init draws the arguments (and what the library routines the   *)
(* function relies on return), the action of the function computes the     *)
(* result exactly as the code does.  Arrays are sequences; Python's        *)
(* 0-based index i is position i+1 of the sequence (operator At).          *)
(***************************************************************************)
EXTENDS Integers, Sequences, FiniteSets, TLC

VARIABLES pc, op, args, env, ret

vars == <<pc, op, args, env, ret>>

\* ------------------------------------------------------------------ bounds
MaxLen == 6
MaxMpd == 2
ExtraLen == 8
MaxCut == 4
MaxOrder == 2
MaxPoints == 5
MaxCalls == 3

\* --------------------------------------------------------- numeric values
\* float64 specials.  Finite samples are small integers; NaN is a sample
\* value of its own, Inf / NegInf are what the code turns NaN into.
NaN == 9999
Inf == 1000
NegInf == -1000

None == [some |-> FALSE, v |-> 0]
Some(v) == [some |-> TRUE, v |-> v]

At(a, i) == a[i + 1]

SetMax(S) == CHOOSE m \in S : \A k \in S : k <= m
SetMin(S) == CHOOSE m \in S : \A k \in S : m <= k

\* ascending sequence of the elements of a set of integers (np.unique,
\* np.sort on distinct indices)
RECURSIVE SortedSeq(_)
SortedSeq(S) ==
    IF S = {} THEN << >>
    ELSE LET m == SetMin(S) IN <<m>> \o SortedSeq(S \ {m})

Range(q) == {q[k] : k \in 1..Len(q)}

\* a - b on float64 where a is finite: x - inf = -inf
Minus(a, b) == IF b = Inf THEN NegInf ELSE a - b

\* ------------------------------------------------------------ detect_peaks
\* -data (line 161): NaN stays NaN
NegData(x) == [k \in 1..Len(x) |-> IF x[k] = NaN THEN NaN ELSE 0 - x[k]]

\* lines 160-163: valley detection negates the data and mph
ValleyData(x, valley) == IF valley THEN NegData(x) ELSE x

ValleyMphKeepSign(mph, valley) == mph

ValleyMph(mph, valley) ==
    IF valley /\ mph.some THEN Some(0 - mph.v) ELSE mph

\* line 169: positions of the NaN samples
indnan(data) == {i \in 0..Len(data) - 1 : At(data, i) = NaN}

\* lines 166, 172: dx[i] = data[i+1] - data[i]; a NaN difference becomes inf
dx(data, i) ==
    IF At(data, i) = NaN \/ At(data, i + 1) = NaN THEN Inf
    ELSE At(data, i + 1) - At(data, i)

\* np.hstack((dx, 0))[i] and np.hstack((0, dx))[i]
dxR(data, i) == IF i = Len(data) - 1 THEN 0 ELSE dx(data, i)
dxL(data, i) == IF i = 0 THEN 0 ELSE dx(data, i - 1)

\* line 171: data[indnan] = np.inf
InfData(data) == [k \in 1..Len(data) |-> IF data[k] = NaN THEN Inf ELSE data[k]]

\* lines 174-182: the candidates of each edge mode
ine_with_plateaus(data) ==
    {i \in 0..Len(data) - 1 : dxR(data, i) <= 0 /\ dxL(data, i) > 0}

ine(data) == {i \in 0..Len(data) - 1 : dxR(data, i) < 0 /\ dxL(data, i) > 0}
ire(data) == {i \in 0..Len(data) - 1 : dxR(data, i) <= 0 /\ dxL(data, i) > 0}
ife(data) == {i \in 0..Len(data) - 1 : dxR(data, i) < 0 /\ dxL(data, i) >= 0}

\* str.lower() on the edge names the model uses
Lower(edge) == IF edge = "RISING" THEN "rising" ELSE edge

Candidates(data, edge) ==
    IF edge = "None" THEN ine(data)
    ELSE (IF Lower(edge) \in {"rising", "both"} THEN ire(data) ELSE {})
         \cup (IF Lower(edge) \in {"falling", "both"} THEN ife(data) ELSE {})

\* line 191: NaN's and values close to NaN's cannot be peaks
NanFilterKeepsAll(ind, data) == ind

NanFilter(ind, data) ==
    {i \in ind : \A j \in indnan(data) : i # j /\ i # j - 1 /\ i # j + 1}

\* line 197: peaks are only valid within [mpd, len(data)-mpd[
BorderFilterLeftOnly(ind, n, mpd) == {pos \in ind : mpd <= pos}

BorderFilter(ind, n, mpd) == {pos \in ind : mpd <= pos /\ pos < n - mpd}

\* lines 208-209: remove peaks < minimum peak height
MphFilter(ind, data, mph) ==
    IF mph.some THEN {i \in ind : At(data, i) >= mph.v} ELSE ind

\* lines 215-228: remove peaks - neighbors < threshold
LeftDx(data, i, mpd) ==
    SetMax({Minus(At(data, i), At(data, i + idx)) : idx \in (0 - mpd)..(-1)})
RightDx(data, i, mpd) ==
    SetMax({Minus(At(data, i), At(data, i + idx)) : idx \in 1..mpd})

\* t > 0 on float64: false for NaN
Positive(t) == t # NaN /\ t > 0

ThresholdFilterRunsEither(ind, threshold, left_threshold, right_threshold) ==
    LET _left_threshold == IF Positive(left_threshold) THEN left_threshold ELSE threshold
        _right_threshold == IF Positive(right_threshold) THEN right_threshold ELSE threshold
    IN  ind # {} /\ (Positive(_left_threshold) \/ Positive(_right_threshold))

\* lines 215-217
ThresholdFilterRuns(ind, threshold, left_threshold, right_threshold) ==
    LET _left_threshold == IF Positive(left_threshold) THEN left_threshold ELSE threshold
        _right_threshold == IF Positive(right_threshold) THEN right_threshold ELSE threshold
    IN  ind # {} /\ (Positive(_left_threshold) /\ Positive(_right_threshold))

\* lines 219-220: the candidates left after the comparison with the left
AfterLeft(ind, data, mpd, threshold, left_threshold) ==
    LET _left_threshold == IF Positive(left_threshold) THEN left_threshold ELSE threshold
    IN  {i \in ind : ~ (LeftDx(data, i, mpd) < _left_threshold)}

\* line 224: data[ind+idx] is inside the array for every idx in 1..mpd
RightIndexOk(ind, data, mpd, threshold, left_threshold) ==
    \A i \in AfterLeft(ind, data, mpd, threshold, left_threshold) : i + mpd < Len(data)

ThresholdFilter(ind, data, mpd, threshold, left_threshold, right_threshold) ==
    LET _right_threshold == IF Positive(right_threshold) THEN right_threshold ELSE threshold
    IN  IF ThresholdFilterRuns(ind, threshold, left_threshold, right_threshold)
        THEN LET afterLeft == AfterLeft(ind, data, mpd, threshold, left_threshold)
             IN  {i \in afterLeft : ~ (RightDx(data, i, mpd) < _right_threshold)}
        ELSE ind

\* line 233: ind[np.argsort(data[ind])][::-1], the peaks by descending
\* height.  np.argsort's default kind is not stable, so the order of peaks
\* of equal height is the implementation's choice: ties is "hi" when the
\* larger index comes first (a stable sort, reversed) and "lo" otherwise.
BeforeAscending(data, ties, p, q) ==
    \/ At(data, p) < At(data, q)
    \/ At(data, p) = At(data, q) /\ (IF ties = "hi" THEN p < q ELSE p > q)

Before(data, ties, p, q) ==
    \/ At(data, p) > At(data, q)
    \/ At(data, p) = At(data, q) /\ (IF ties = "hi" THEN p > q ELSE p < q)

RECURSIVE SortByHeight(_, _, _)
SortByHeight(S, data, ties) ==
    IF S = {} THEN << >>
    ELSE LET p == CHOOSE p \in S : \A q \in S \ {p} : Before(data, ties, p, q)
         IN  <<p>> \o SortByHeight(S \ {p}, data, ties)

SuppressNothing(sorted, i, idel, data, mpd, kpsh) == {}

\* lines 234-240: the loop over the sorted peaks; idel is the set of peaks
\* marked for deletion so far
RECURSIVE Suppress(_, _, _, _, _, _)
Suppress(sorted, i, idel, data, mpd, kpsh) ==
    IF i > Len(sorted) THEN idel
    ELSE LET p == sorted[i]
             marked == {q \in Range(sorted) :
                          /\ q >= p - mpd
                          /\ q <= p + mpd
                          /\ (IF kpsh THEN At(data, p) > At(data, q) ELSE TRUE)}
         IN  IF p \notin idel
             THEN Suppress(sorted, i + 1, (idel \cup marked) \ {p}, data, mpd, kpsh)
             ELSE Suppress(sorted, i + 1, idel, data, mpd, kpsh)

\* line 242 without the np.sort: the survivors in order of height
SurvivorsByHeight(sorted, idel) == SelectSeq(sorted, LAMBDA p : p \notin idel)

\* line 242: ind = np.sort(ind[~idel])
Survivors(sorted, idel) == SortedSeq(Range(sorted) \ idel)

\* lines 232-242: detect small peaks closer than minimum peak distance
MpdFilter(ind, data, mpd, kpsh, ties) ==
    IF ind # {} /\ mpd > 1
    THEN LET sorted == SortByHeight(ind, data, ties)
         IN  Survivors(sorted, Suppress(sorted, 1, {}, data, mpd, kpsh))
    ELSE SortedSeq(ind)

\* line 244: keep the peaks that are the maximum of data[item-mpd:item+mpd+1];
\* a slice ends where the array ends
WindowMax(data, item, mpd) ==
    LET stop == IF item + mpd < Len(data) THEN item + mpd ELSE Len(data) - 1
    IN  SetMax({At(data, k) : k \in (item - mpd)..stop})

MaxFilterKeepsAll(ind, data, mpd) == ind

MaxFilter(ind, data, mpd) ==
    SelectSeq(ind, LAMBDA item : At(data, item) = WindowMax(data, item, mpd))

\* scipy.signal.peak_prominences(data, ind, None), line 250: walk left and
\* right from the peak while the samples are not higher than the peak
RECURSIVE LeftBase(_, _, _, _)
LeftBase(data, peak, i, m) ==
    IF i >= 0 /\ At(data, i) <= At(data, peak)
    THEN LeftBase(data, peak, i - 1, IF At(data, i) < m THEN At(data, i) ELSE m)
    ELSE m

RECURSIVE RightBase(_, _, _, _)
RightBase(data, peak, i, m) ==
    IF i <= Len(data) - 1 /\ At(data, i) <= At(data, peak)
    THEN RightBase(data, peak, i + 1, IF At(data, i) < m THEN At(data, i) ELSE m)
    ELSE m

peak_prominences(data, peak) ==
    LET l == LeftBase(data, peak, peak, At(data, peak))
        r == RightBase(data, peak, peak, At(data, peak))
    IN  At(data, peak) - (IF l > r THEN l ELSE r)

\* lines 249-251: `if prominence:` is false for None and for 0
ProminenceFilter(ind, data, prominence) ==
    IF prominence.some /\ prominence.v # 0
    THEN SelectSeq(ind, LAMBDA p : peak_prominences(data, p) >= prominence.v)
    ELSE ind

\* line 157: data.size < 3
TooFewSamplesBelowTwo(n) == n < 2

TooFewSamples(n) == n < 3

Array(ind) == [kind |-> "array", ind |-> ind]
Raise(error) == [kind |-> "raise", error |-> error]

\* lines 155-266.  The result is the index array, or the exception raised:
\* with mpd = 0 the threshold filter stacks no rows and np.vstack raises, and
\* an index past the end of the data raises IndexError.
detect_peaks(x, mph, mpd, threshold, left_threshold, right_threshold, prominence, edge, kpsh, valley, ties) ==
    IF TooFewSamples(Len(x)) THEN Array(<< >>)
    ELSE LET nandata == ValleyData(x, valley)
             _mph == ValleyMph(mph, valley)
             data == InfData(nandata)
             ind0 == Candidates(nandata, edge)
             ind1 == NanFilter(ind0, nandata)
             ind2 == BorderFilter(ind1, Len(data), mpd)
             ind3 == MphFilter(ind2, data, _mph)
         IN  IF ThresholdFilterRuns(ind3, threshold, left_threshold, right_threshold)
                /\ mpd = 0
             THEN Raise("ValueError")
             ELSE IF ThresholdFilterRuns(ind3, threshold, left_threshold, right_threshold)
                     /\ ~ RightIndexOk(ind3, data, mpd, threshold, left_threshold)
             THEN Raise("IndexError")
             ELSE LET ind4 == ThresholdFilter(ind3, data, mpd, threshold,
                                              left_threshold, right_threshold)
                      ind5 == MpdFilter(ind4, data, mpd, kpsh, ties)
                      ind6 == MaxFilter(ind5, data, mpd)
                  IN  Array(ProminenceFilter(ind6, data, prominence))

\* ------------------------------------------- is_ecg_signal, wavelet_denoise
\* lines 570-572, 797-800: int() truncates; 0.1*fs and 0.3*fs of an integer
\* fs truncate to fs div 10 and 3*fs div 10
step_len(fs) == fs \div 10
qrs_radius(fs) == fs \div 10
window_radius_rounded(fs) == (3 * fs + 5) \div 10

window_radius(fs) == (3 * fs) \div 10
slice_len(fs) == 2 * window_radius(fs)

\* 2^k <= a/b and a/b <= 2^k for positive integers a, b and any integer k
Pow2Leq(k, a, b) == IF k >= 0 THEN b * (2 ^ k) <= a ELSE b <= a * (2 ^ (0 - k))
LeqPow2(k, a, b) == IF k >= 0 THEN a <= b * (2 ^ k) ELSE a * (2 ^ (0 - k)) <= b

LevelRange == -12..12

\* int(np.floor(np.log2(a/b))) and int(np.ceil(np.log2(a/b)))
FloorLog2(a, b) ==
    CHOOSE k \in LevelRange : Pow2Leq(k, a, b) /\ ~ Pow2Leq(k + 1, a, b)
CeilLog2(a, b) ==
    CHOOSE k \in LevelRange : LeqPow2(k, a, b) /\ ~ LeqPow2(k - 1, a, b)

\* lines 592-595, 826-829: qrs_freqs = [10, 40]
qrs_levels_outer(fs) == <<FloorLog2(fs, 40), CeilLog2(fs, 10)>>

qrs_levels(fs) ==
    LET lo == CeilLog2(fs, 40)
        hi == FloorLog2(fs, 10)
    IN  IF lo > hi THEN <<hi, lo>> ELSE <<lo, hi>>

\* lines 831-832: ecg_freqs = [0.5, 45]
ecg_levels(fs) == <<FloorLog2(fs, 45), CeilLog2(2 * fs, 1)>>

\* line 597 and line 838
tot_level_is_ecg(fs) == qrs_levels(fs)[2]
tot_level_denoise(fs) == ecg_levels(fs)[2] + 1

\* lines 599, 840: pow(2,tot_level) > sig_len; 2^k is in (0,1) for k < 0
TooShortNever(tot_level, sig_len) == FALSE

TooShortOffByOne(tot_level, sig_len) ==
    IF tot_level >= 0 THEN 2 ^ tot_level > sig_len + 1 ELSE sig_len = 0

TooShort(tot_level, sig_len) ==
    IF tot_level >= 0 THEN 2 ^ tot_level > sig_len ELSE sig_len = 0

\* lines 604-609, 846-851: length of s_padded
PaddedLen(sig_len, tot_level) ==
    LET base_len == 2 ^ tot_level
    IN  IF sig_len % base_len > 0
        THEN (sig_len \div base_len + 1) * base_len
        ELSE sig_len

\* lines 604-609, 846-851: the signal, with zeros after it if its length is
\* not a multiple of base_len
s_unpadded(s, tot_level) == s

s_padded(s, tot_level) ==
    s \o [k \in 1..(PaddedLen(Len(s), tot_level) - Len(s)) |-> 0]

\* lines 634, 876, 1012: pywt.iswt(...)[:sig_len]
Truncate(rec, sig_len) == SubSeq(rec, 1, sig_len)

\* lines 631-633, 873-875: c_[tot_level-lv] indexes a list of tot_level
\* entries; Python accepts the indices -tot_level .. tot_level-1
ListIndexOk(i, n) == 0 - n <= i /\ i < n

QrsLevelsIndexOk(fs, tot_level) ==
    \A lv \in qrs_levels(fs)[1]..qrs_levels(fs)[2] :
        ListIndexOk(tot_level - lv, tot_level)

\* lines 659, 901: length of qrs_power, the slice [slice_len:-slice_len] of
\* an array of sig_len samples ([0:-0] is empty)
PowerLen(sig_len, fs) ==
    IF slice_len(fs) = 0 \/ sig_len <= 2 * slice_len(fs) THEN 0
    ELSE sig_len - 2 * slice_len(fs)

\* a[lo:hi] for 0 <= lo <= hi <= len(a)
Slice(a, lo, hi) == SubSeq(a, lo + 1, hi)

SeqMax(a) == SetMax(Range(a))
SeqMin(a) == SetMin(Range(a))

\* lines 661-665, 903-907: max - min in the windows of radius window_radius
RECURSIVE Swings(_, _, _, _)
Swings(power, idx, wr, step) ==
    IF idx < Len(power) - wr /\ step > 0
    THEN LET qrs_seg == Slice(power, idx - wr, idx + wr + 1)
         IN  <<SeqMax(qrs_seg) - SeqMin(qrs_seg)>> \o Swings(power, idx + step, wr, step)
    ELSE << >>

\* ascending sort of a sequence of numbers
RECURSIVE SortVals(_)
SortVals(a) ==
    IF a = << >> THEN << >>
    ELSE LET k == CHOOSE k \in 1..Len(a) : \A j \in 1..Len(a) : a[k] <= a[j]
         IN  <<a[k]>> \o SortVals(SubSeq(a, 1, k - 1) \o SubSeq(a, k + 1, Len(a)))

\* np.percentile(a, q): linear interpolation between the two nearest ranks;
\* NaN for an empty array.  The inputs of the model keep the value integral.
Percentile(a, q) ==
    IF a = << >> THEN NaN
    ELSE LET v == SortVals(a)
             pos == (Len(a) - 1) * q
             lo == pos \div 100
             rem == pos % 100
         IN  IF rem = 0 THEN v[lo + 1]
             ELSE v[lo + 1] + ((v[lo + 2] - v[lo + 1]) * rem) \div 100

\* lines 666, 908: qrs_amp = np.percentile(qrs_amplitudes, 50) * 0.5
Half(v) == IF v = NaN THEN NaN ELSE v \div 2

qrs_amp_threshold(power, fs) ==
    Half(Percentile(Swings(power, window_radius(fs), window_radius(fs), step_len(fs)), 50))

\* lines 671-676, 913-918
raw_r_peaks(power, fs, ties) ==
    detect_peaks(power, None, step_len(fs), qrs_amp_threshold(power, fs), 0, 0,
                 None, "rising", FALSE, FALSE, ties).ind

\* lines 567-568, 574-575: rr bounds in ms, confidences in tenths
valid_rr == <<200, 3000>>
reasonable_rr == <<300, 1500>>
high_confidence == 10
low_confidence == 4
is_ecg_confidence_threshold == 10

\* spacing*len(qrs_power)/rr <= n and n <= spacing*len(qrs_power)/rr, with
\* spacing = 1000/fs, in exact arithmetic
DurLeq(power_len, fs, rr, n) == 1000 * power_len <= n * rr * fs
LeqDur(power_len, fs, rr, n) == n * rr * fs <= 1000 * power_len

is_ecg_confidence_valid_first(power_len, n, fs) ==
    IF DurLeq(power_len, fs, valid_rr[2], n) /\ LeqDur(power_len, fs, valid_rr[1], n)
    THEN low_confidence
    ELSE IF DurLeq(power_len, fs, reasonable_rr[2], n)
            /\ LeqDur(power_len, fs, reasonable_rr[1], n)
         THEN high_confidence
         ELSE 0

\* lines 723-726, 965-968: criteria 1, number of (r) peaks
is_ecg_confidence(power_len, n, fs) ==
    IF DurLeq(power_len, fs, reasonable_rr[2], n) /\ LeqDur(power_len, fs, reasonable_rr[1], n)
    THEN high_confidence
    ELSE IF DurLeq(power_len, fs, valid_rr[2], n) /\ LeqDur(power_len, fs, valid_rr[1], n)
         THEN low_confidence
         ELSE 0

\* lines 617-676 and 859-968: decomposition, power envelope, beat candidates
\* and confidence.  pywt.swt rejects a level below 1; qrs_power is what the
\* wavelet transform yields, taken from env.
QrsStage(sig_len, fs, tot_level, e) ==
    IF tot_level < 1 THEN [kind |-> "raise", error |-> "ValueError"]
    ELSE IF ~ QrsLevelsIndexOk(fs, tot_level)
         THEN [kind |-> "raise", error |-> "IndexError"]
         ELSE LET peaks == raw_r_peaks(e.qrs_power, fs, e.ties)
              IN  [kind |-> "ok",
                   raw_r_peaks |-> peaks,
                   power_len |-> Len(e.qrs_power),
                   confidence |-> is_ecg_confidence(Len(e.qrs_power), Len(peaks), fs)]

\* lines 544-740
is_ecg_signal(s, fs, e) ==
    LET tot_level == tot_level_is_ecg(fs)
    IN  IF TooShort(tot_level, Len(s))
        THEN [kind |-> "return", value |-> FALSE, swt |-> FALSE,
              confidence |-> 0, n |-> 0, power_len |-> 0, s_padded |-> << >>]
        ELSE LET q == QrsStage(Len(s), fs, tot_level, e)
             IN  IF q.kind = "raise" THEN q
                 ELSE [kind |-> "return",
                       value |-> (q.confidence >= is_ecg_confidence_threshold),
                       swt |-> TRUE,
                       confidence |-> q.confidence,
                       n |-> Len(q.raw_r_peaks),
                       power_len |-> q.power_len,
                       s_padded |-> s_padded(s, tot_level)]

\* amplification ratios are the fractions num/den, NaN or inf
Ratio(num, den) == [kind |-> "num", num |-> num, den |-> den]
RatioOne == Ratio(1, 1)
RatioNaN == [kind |-> "nan", num |-> 0, den |-> 1]
RatioInf == [kind |-> "inf", num |-> 1, den |-> 0]

IsOne(r) == r.kind = "num" /\ r.num = r.den
IsNaNRatio(r) == r.kind = "nan"
\* r > 1.0
GtOne(r) == r.kind = "inf" \/ (r.kind = "num" /\ r.num > r.den)

\* lines 987-990: the swing of s around every beat, then the 75th percentile
BeatSwings(s, peaks, fs) ==
    [k \in 1..Len(peaks) |->
        LET qrs_seg == Slice(s, peaks[k] - qrs_radius(fs), peaks[k] + qrs_radius(fs) + 1)
        IN  SeqMax(qrs_seg) - SeqMin(qrs_seg)]

\* lines 991-994: qrs_amp < need_amplification_threshold is false for NaN;
\* a float64 division by 0.0 yields inf
amplify_ratio_always_one(qrs_amp, standard_ecg_amplitude, need_amplification_threshold) ==
    RatioOne

amplify_ratio_at_threshold(qrs_amp, standard_ecg_amplitude, need_amplification_threshold) ==
    IF qrs_amp # NaN /\ qrs_amp <= need_amplification_threshold
    THEN IF qrs_amp = 0 THEN RatioInf ELSE Ratio(standard_ecg_amplitude, qrs_amp)
    ELSE RatioOne

amplify_ratio(qrs_amp, standard_ecg_amplitude, need_amplification_threshold) ==
    IF qrs_amp # NaN /\ qrs_amp < need_amplification_threshold
    THEN IF qrs_amp = 0 THEN RatioInf ELSE Ratio(standard_ecg_amplitude, qrs_amp)
    ELSE RatioOne

NeedsReconstructionAnyMode(amplify_mode, ratio) == GtOne(ratio)

\* line 996
NeedsReconstruction(amplify_mode, ratio) == amplify_mode # "none" /\ GtOne(ratio)

\* lines 1000-1005
levels_in_use(amplify_mode, fs) ==
    IF amplify_mode = "ecg" THEN <<ecg_levels(fs)[1], ecg_levels(fs)[2] - 2>>
    ELSE IF amplify_mode = "qrs" THEN <<qrs_levels(fs)[1] - 1, qrs_levels(fs)[2] + 1>>
    ELSE <<1, ecg_levels(fs)[2] + 1>>

AmplifiedLevelsInclusive(amplify_mode, fs) ==
    {lv \in LevelRange : levels_in_use(amplify_mode, fs)[1] <= lv
                         /\ lv <= levels_in_use(amplify_mode, fs)[2]}

\* line 1009: range(levels_in_use[0], levels_in_use[1])
AmplifiedLevels(amplify_mode, fs) ==
    {lv \in LevelRange : levels_in_use(amplify_mode, fs)[1] <= lv
                         /\ lv < levels_in_use(amplify_mode, fs)[2]}

\* lines 1009-1010: c_[tot_level-lv] and coeffs[tot_level-lv] index lists of
\* tot_level entries; a level below 1 is past the end of the list
AmplifyIndexOk(amplify_mode, fs, tot_level) ==
    \A lv \in AmplifiedLevels(amplify_mode, fs) : ListIndexOk(tot_level - lv, tot_level)

\* a[lo:hi] = v for 0 <= lo <= hi <= len(a)
Fill(a, lo, hi, v) == [k \in 1..Len(a) |-> IF lo < k /\ k <= hi THEN v ELSE a[k]]

\* lines 1017-1030: head and tail of the reconstruction; the two assignments
\* of a mode run one after the other, a negative index -k is len - k
\* (slice_len > 0 wherever the reconstruction is reached: fs > 40 there)
sides_head_only(s_rec, sides_mode, sl, cval) ==
    IF sides_mode = "constant" THEN Fill(s_rec, 0, sl, cval) ELSE s_rec

sides(s_rec, sides_mode, sl, cval) ==
    LET n == Len(s_rec)
    IN  IF sides_mode = "nearest"
        THEN LET h == Fill(s_rec, 0, sl, At(s_rec, sl))
             IN  Fill(h, n - sl, n, At(h, n - sl - 1))
        ELSE IF sides_mode = "mirror"
        THEN LET h == [k \in 1..n |-> IF k <= sl THEN At(s_rec, 2 * sl - k)
                                     ELSE s_rec[k]]
             IN  [k \in 1..n |-> IF k > n - sl THEN At(h, n - sl - 1 - (k - 1 - (n - sl)))
                                 ELSE h[k]]
        ELSE IF sides_mode = "wrap"
        THEN LET h == [k \in 1..n |->
                         IF k <= sl
                         THEN At(s_rec, n - 2 * sl + (k - 1))
                              + (At(s_rec, sl) - At(s_rec, sl - 1))
                         ELSE s_rec[k]]
             IN  [k \in 1..n |->
                     IF k > n - sl
                     THEN At(h, sl + (k - 1 - (n - sl)))
                          + (At(h, n - sl) - At(h, n - sl - 1))
                     ELSE h[k]]
        ELSE IF sides_mode = "constant"
        THEN Fill(Fill(s_rec, 0, sl, cval), n - sl, n, cval)
        ELSE s_rec

AmplifyModes == {"ecg", "qrs", "all", "none"}
SidesModes == {"nearest", "mirror", "wrap", "constant", "no_slicing", "interp"}

\* raw_r_peaks + slice_len, lines 985 and 1070
ShiftNone(peaks, d) == peaks

ShiftHalf(peaks, d) == [k \in 1..Len(peaks) |-> peaks[k] + d \div 2]

Shift(peaks, d) == [k \in 1..Len(peaks) |-> peaks[k] + d]

\* lines 783-788: the enumerated options are validated first
InvalidOptionsAmplifyOnly(amplify_mode, sides_mode) == amplify_mode \notin AmplifyModes

InvalidOptions(amplify_mode, sides_mode) ==
    amplify_mode \notin AmplifyModes \/ sides_mode \notin SidesModes

\* lines 782-1073.  The result carries the fields of WaveletDenoiseResult
\* (wavelet_coeffs as its number of levels) and what the call did: swt, the
\* decomposition was computed; rec, the inverse transform of the amplified
\* coefficients was computed; levels, the levels that were amplified.
wavelet_denoise(s, fs, amplify_mode, sides_mode, cval, standard_ecg_amplitude, need_amplification_threshold, e) ==
    IF InvalidOptions(amplify_mode, sides_mode)
    THEN [kind |-> "raise", error |-> "ValueError"]
    ELSE
    LET tot_level == tot_level_denoise(fs)
        sl == slice_len(fs)
    IN  IF TooShort(tot_level, Len(s))
        THEN [kind |-> "return", is_ecg |-> FALSE, amplified_ratio |-> RatioOne,
              amplified_signal |-> s, raw_r_peaks |-> << >>, side_len |-> sl,
              wavelet_coeffs |-> 0, swt |-> FALSE, rec |-> FALSE, levels |-> {},
              confidence |-> 0, n |-> 0, power_len |-> 0, s_padded |-> << >>]
        ELSE
        LET q == QrsStage(Len(s), fs, tot_level, e)
        IN  IF q.kind = "raise" THEN q
            ELSE IF q.confidence >= is_ecg_confidence_threshold
            THEN LET peaks == Shift(q.raw_r_peaks, sl)
                     qrs_amp == Percentile(BeatSwings(s, peaks, fs), 75)
                     ratio == amplify_ratio(qrs_amp, standard_ecg_amplitude,
                                            need_amplification_threshold)
                 IN  IF NeedsReconstruction(amplify_mode, ratio)
                     THEN IF ~ AmplifyIndexOk(amplify_mode, fs, tot_level)
                          THEN [kind |-> "raise", error |-> "IndexError"]
                          ELSE IF sides_mode = "interp"
                          THEN [kind |-> "raise", error |-> "ValueError"]
                          ELSE [kind |-> "return", is_ecg |-> TRUE,
                                amplified_ratio |-> ratio,
                                amplified_signal |-> sides(Truncate(e.s_rec, Len(s)), sides_mode, sl, cval),
                                raw_r_peaks |-> peaks, side_len |-> sl,
                                wavelet_coeffs |-> tot_level, swt |-> TRUE,
                                rec |-> TRUE,
                                levels |-> AmplifiedLevels(amplify_mode, fs),
                                confidence |-> q.confidence,
                                n |-> Len(q.raw_r_peaks), power_len |-> q.power_len,
                                s_padded |-> s_padded(s, tot_level)]
                     ELSE [kind |-> "return", is_ecg |-> TRUE,
                           amplified_ratio |-> ratio, amplified_signal |-> s,
                           raw_r_peaks |-> peaks, side_len |-> sl,
                           wavelet_coeffs |-> tot_level, swt |-> TRUE,
                           rec |-> FALSE, levels |-> {},
                           confidence |-> q.confidence,
                           n |-> Len(q.raw_r_peaks), power_len |-> q.power_len,
                           s_padded |-> s_padded(s, tot_level)]
            ELSE [kind |-> "return", is_ecg |-> FALSE, amplified_ratio |-> RatioNaN,
                  amplified_signal |-> s,
                  raw_r_peaks |-> Shift(q.raw_r_peaks, sl), side_len |-> sl,
                  wavelet_coeffs |-> tot_level, swt |-> TRUE, rec |-> FALSE,
                  levels |-> {}, confidence |-> q.confidence,
                  n |-> Len(q.raw_r_peaks), power_len |-> q.power_len,
                  s_padded |-> s_padded(s, tot_level)]

\* --------------------------------------------- resample_irregular_timeseries
\* A dict of interpolation options is the record of its keys "w" and "s",
\* None for a key it does not hold.  A time series is known by its number
\* of points m; np.ones(shape=(m,)) is known by m, and so is the default
\* smoothing m - sqrt(2*m), which is a different number for every m >= 1.
EmptyKw == [w |-> None, s |-> None]

\* scipy.interpolate.splrep(x, y, w=w, s=s), line 1188: the three arrays
\* must have one length
splrep(m, w, s) ==
    IF w # m THEN Raise("TypeError")
    ELSE [kind |-> "array", method |-> "spline", m |-> m, w |-> w, s |-> s]

\* scipy.interpolate.interp1d(x, y, **interp_kw), line 1192: it has no
\* keyword w or s
interp1d(m, interp_kw) ==
    IF interp_kw.w.some \/ interp_kw.s.some THEN Raise("TypeError")
    ELSE [kind |-> "array", method |-> "interp1d", m |-> m, w |-> 0, s |-> 0]

\* lines 1182-1186: w and s are read from interp_kw, the values of a fresh
\* call being the defaults, and written back into the same dict
UpdatedKw(m, interp_kw) ==
    [w |-> Some(IF interp_kw.w.some THEN interp_kw.w.v ELSE m),
     s |-> Some(IF interp_kw.s.some THEN interp_kw.s.v ELSE m)]

\* lines 1124-1198.  ret is what the call returns or raises, interp_kw the
\* dict object it was given as the call leaves it.
resample_irregular_timeseries(m, method, interp_kw) ==
    IF method \notin {"spline", "interp1d"}
    THEN [ret |-> Raise("ValueError"), interp_kw |-> interp_kw]
    ELSE IF m = 0
    THEN [ret |-> [kind |-> "array", method |-> "empty", m |-> 0, w |-> 0, s |-> 0],
          interp_kw |-> interp_kw]
    ELSE IF method = "spline"
    THEN LET kw == UpdatedKw(m, interp_kw)
         IN  [ret |-> splrep(m, kw.w.v, kw.s.v), interp_kw |-> kw]
    ELSE [ret |-> interp1d(m, interp_kw), interp_kw |-> interp_kw]

\* lines 1250-1260: the loop over the segments, every call being given the
\* same dict object; an exception ends the loop
RECURSIVE ResampleSegments(_, _, _, _, _)
ResampleSegments(segments, idx, method, interp_kw, result) ==
    IF idx > Len(segments)
    THEN [ret |-> [kind |-> "list", result |-> result], interp_kw |-> interp_kw]
    ELSE LET r == resample_irregular_timeseries(segments[idx], method, interp_kw)
         IN  IF r.ret.kind = "raise" THEN r
             ELSE ResampleSegments(segments, idx + 1, method, r.interp_kw,
                                   Append(result, r.ret))

\* lines 1201-1261; segments are the numbers of points of the pieces of s
resample_discontinuous_irregular_timeseries(segments, method, interp_kw) ==
    ResampleSegments(segments, 1, method, interp_kw, << >>)

\* --------------------------------------------------------- butter_bandpass
\* lines 1309-1312: low = lowcut / (0.5*fs), high = highcut / (0.5*fs),
\* compared with 0 and 1 without the division (fs # 0)
NormLeqZero(cut, fs) == IF fs > 0 THEN cut <= 0 ELSE cut >= 0
NormGeqOne(cut, fs) == IF fs > 0 THEN 2 * cut >= fs ELSE 2 * cut <= fs

\* the normalized frequency cut / (0.5*fs) as the fraction 2*cut / fs
Norm(cut, fs) == <<2 * cut, fs>>

AllPassStrict(lowcut, highcut, fs) ==
    /\ (IF fs > 0 THEN lowcut < 0 ELSE lowcut > 0)
    /\ (IF fs > 0 THEN 2 * highcut > fs ELSE 2 * highcut < fs)

\* line 1314: low <= 0 and high >= 1
AllPass(lowcut, highcut, fs) == NormLeqZero(lowcut, fs) /\ NormGeqOne(highcut, fs)

\* lines 1318-1329: the band type and the critical frequencies
Wn(lowcut, highcut, fs) ==
    IF NormLeqZero(lowcut, fs) THEN <<Norm(highcut, fs)>>
    ELSE IF NormGeqOne(highcut, fs) THEN <<Norm(lowcut, fs)>>
    ELSE IF lowcut = highcut THEN <<Norm(highcut, fs)>>
    ELSE <<Norm(lowcut, fs), Norm(highcut, fs)>>

btype(lowcut, highcut, fs) ==
    IF NormLeqZero(lowcut, fs) THEN "low"
    ELSE IF NormGeqOne(highcut, fs) THEN "high"
    ELSE IF lowcut = highcut THEN "low"
    ELSE "band"

\* lines 1309-1336.  The result is the pair (b, a), or the design
\* scipy.signal.butter is asked for (kind "butter"), or the exception: the
\* division by nyq = 0.0 raises ZeroDivisionError.
butter_bandpass(lowcut, highcut, fs, order) ==
    IF fs = 0 THEN Raise("ZeroDivisionError")
    ELSE IF NormGeqOne(lowcut, fs) THEN Raise("ValueError")
    ELSE IF AllPass(lowcut, highcut, fs)
    THEN [kind |-> "coeffs", b |-> <<1>>, a |-> <<1>>]
    ELSE [kind |-> "butter", order |-> order,
          Wn |-> Wn(lowcut, highcut, fs), btype |-> btype(lowcut, highcut, fs)]

\* ---------------------------------------------------------------- inputs
\* sample heights, and the height that stands for NaN in NanSignals
Samples == {0, 1, 2}
NanMark == 2

RECURSIVE SeqsOfLen(_, _)
SeqsOfLen(S, n) ==
    IF n = 0 THEN {<< >>}
    ELSE {Append(q, v) : q \in SeqsOfLen(S, n - 1), v \in S}

SeqsUpTo(S, n) == UNION {SeqsOfLen(S, k) : k \in 0..n}

\* the examples of the docstring, lines 134, 142, 146
DocExample == <<0, 1, 0, 2, 0, 3, 0, 2, 0, 1, 0>>
DocExampleFlat == <<0, 1, 1, 0, 1, 1, 0>>
DocExampleThreshold == <<-2, 1, -2, 2, 1, 1, 3, 0>>

\* signals with NaN samples
NanSignals ==
    {[k \in 1..Len(q) |-> IF q[k] = NanMark THEN NaN ELSE q[k]] :
        q \in SeqsUpTo(Samples, MaxLen - 1)}

Signals ==
    SeqsUpTo(Samples, MaxLen) \cup NanSignals
        \cup {DocExample, DocExampleFlat, DocExampleThreshold}

Edges == {"rising", "falling", "both", "None", "bogus"}
ValidEdges == {"rising", "falling", "both", "None"}
TieOrders == {"hi", "lo"}

\* every edge mode, height limit and flag with the default thresholds; every
\* threshold and prominence setting with the rising edge; and mpd = 0 and
\* the upper-case edge name with or without a threshold
PeakArgs ==
    [x : Signals, mph : {None, Some(1)}, mpd : 1..MaxMpd,
     threshold : {0}, left_threshold : {0}, right_threshold : {0},
     prominence : {None}, edge : Edges, kpsh : BOOLEAN, valley : BOOLEAN]
    \cup
    [x : Signals, mph : {None}, mpd : 1..MaxMpd,
     threshold : {0, 2}, left_threshold : {0, 2}, right_threshold : {0, 2},
     prominence : {None, Some(1)}, edge : {"rising"},
     kpsh : {FALSE}, valley : {FALSE}]
    \cup
    [x : Signals, mph : {None}, mpd : 0..MaxMpd,
     threshold : {0, 1}, left_threshold : {0}, right_threshold : {0},
     prominence : {None}, edge : {"rising", "falling", "both", "None", "RISING"},
     kpsh : {FALSE}, valley : {FALSE}]

\* the sort order matters only where line 233 runs
PeakEnv(a) == [ties : IF a.mpd > 1 THEN TieOrders ELSE {"hi"}]

NoRet == [kind |-> "none"]

\* sampling frequencies: below 10 Hz, between the QRS band limits, and two
\* above the upper limit of 40 Hz, with different step_len
FsValues == {5, 30, 41, 50}

\* signal lengths around the minimum lengths 2^tot_level of the two callers
SigLens == {0, 1, 3, 4, 60, 255, 256, 256 + ExtraLen}

\* signals: "alt" alternates 0 and amp, "edge" is 0 but for its first sample
MakeSignal(n, amp, shape) ==
    [k \in 1..n |-> IF shape = "alt"
                    THEN (IF k % 2 = 0 THEN amp ELSE 0)
                    ELSE (IF k = 1 THEN amp ELSE 0)]

Amplitudes == {0, 200, 500}
EcgSignals ==
    {MakeSignal(n, amp, "alt") : n \in SigLens, amp \in Amplitudes}
        \cup {MakeSignal(n, 200, "edge") : n \in SigLens}

IsZero(s) == \A k \in 1..Len(s) : s[k] = 0

\* what the wavelet transform may yield as qrs_power: spikes of one height
\* every period samples (period 0: none); the transform is linear, so a
\* zero signal has a zero envelope
SpikeHeight == 64
Periods == {0, 5, 10, 20, 100}
SpikeTrain(n, period) ==
    [k \in 1..n |-> IF period > 0 /\ (k - 1) % period = period \div 2
                    THEN SpikeHeight ELSE 0]

\* the rounded inverse transform of the padded buffer: a ramp, so that every
\* sample differs
Ramp(n, slope) == [k \in 1..n |-> slope * k]
Slopes == {3}

\* the call reaches pywt.swt and the envelope
ReachesEnvelope(tot_level, sig_len, fs) ==
    /\ ~ TooShort(tot_level, sig_len)
    /\ tot_level >= 1
    /\ QrsLevelsIndexOk(fs, tot_level)

EcgEnv(tot_level, s, fs) ==
    IF ReachesEnvelope(tot_level, Len(s), fs)
    THEN [ties : TieOrders,
          qrs_power : {SpikeTrain(PowerLen(Len(s), fs), p) :
                          p \in IF IsZero(s) THEN {0} ELSE Periods},
          s_rec : {Ramp(PaddedLen(Len(s), tot_level), m) : m \in Slopes}]
    ELSE [ties : {"hi"}, qrs_power : {<< >>}, s_rec : {<< >>}]

\* a sampling frequency of which neither a tenth nor three tenths is a whole
\* number: 0.1*46 = 4.6 and 0.3*46 = 13.8
FractionalFsValues == {46}
FractionalFsSignals == {MakeSignal(n, 200, "alt") : n \in SigLens}

IsEcgArgs ==
    [s : EcgSignals, fs : FsValues] \cup [s : FractionalFsSignals, fs : FractionalFsValues]

\* a sampling frequency above 90 Hz, where every level of the three
\* amplification modes is a level of the decomposition, with signals around
\* the 2^9 samples it needs
HighFsValues == {100}
HighFsSignals ==
    {MakeSignal(512, amp, "alt") : amp \in {200, 500}}
        \cup {MakeSignal(511, 200, "alt")}

\* every pair of options, valid or not, on the signals of amplitude 200;
\* two amplification modes and two sides modes on every signal; the four
\* amplification modes at the high sampling frequency; and two modes at the
\* fractional one
DenoiseArgs ==
    [s : {MakeSignal(n, 200, "alt") : n \in SigLens}, fs : FsValues,
     amplify_mode : AmplifyModes \cup {"bogus"},
     sides_mode : SidesModes \cup {"bogus"},
     cval : {5},
     standard_ecg_amplitude : {1100},
     need_amplification_threshold : {500}]
    \cup
    [s : EcgSignals, fs : FsValues,
     amplify_mode : {"all", "none"},
     sides_mode : {"nearest", "interp"},
     cval : {5},
     standard_ecg_amplitude : {1100},
     need_amplification_threshold : {500}]
    \cup
    [s : HighFsSignals, fs : HighFsValues,
     amplify_mode : AmplifyModes,
     sides_mode : {"constant", "no_slicing", "interp"},
     cval : {5},
     standard_ecg_amplitude : {1100},
     need_amplification_threshold : {500}]
    \cup
    [s : FractionalFsSignals, fs : FractionalFsValues,
     amplify_mode : {"all", "none"},
     sides_mode : {"nearest"},
     cval : {5},
     standard_ecg_amplitude : {1100},
     need_amplification_threshold : {500}]

\* cutoffs of either sign; sampling frequencies of either sign and 0
FilterFs == {-4, 0, 2, 4, 7}
FilterArgs ==
    [lowcut : (0 - MaxCut)..MaxCut, highcut : (0 - MaxCut)..MaxCut,
     fs : FilterFs, order : 0..MaxOrder]

NoEnv == [kind |-> "none"]

\* time series of no point and of enough points for a cubic spline
SeriesLens == {0} \cup (4..MaxPoints)
SegmentLists == UNION {SeqsOfLen(4..MaxPoints, k) : k \in 1..2}
Methods == {"spline", "interp1d", "bogus"}

\* the dict a caller may hold: empty, or with a smoothing of its own
CallerKws == {EmptyKw, [w |-> None, s |-> Some(0)]}

\* a call names its series, its method and whether it passes the caller's
\* dict ("caller") or leaves interp_kw to its default ("default");
\* interp_kw is the content of that dict when the call is made
ResampleCalls(e) ==
    {[op |-> "resample_irregular_timeseries",
      args |-> [s |-> m, method |-> method, kw |-> kw,
                interp_kw |-> IF kw = "caller" THEN e.caller_kw ELSE e.default_kw]] :
        m \in SeriesLens, method \in Methods, kw \in {"caller", "default"}}
    \cup
    {[op |-> "resample_discontinuous_irregular_timeseries",
      args |-> [s |-> segments, method |-> method, kw |-> kw,
                interp_kw |-> IF kw = "caller" THEN e.caller_kw
                              ELSE e.default_kw_discontinuous]] :
        segments \in SegmentLists, method \in Methods, kw \in {"caller", "default"}}

\* the process as it starts: the two default dicts are the {} of the def
\* statements (lines 1129 and 1208)
ResampleEnvs ==
    [default_kw : {EmptyKw}, default_kw_discontinuous : {EmptyKw},
     caller_kw : CallerKws, calls : {1}]

\* ---------------------------------------------------------- specification
InitPeaks ==
    /\ pc = "call"
    /\ op = "detect_peaks"
    /\ args \in PeakArgs
    /\ env \in PeakEnv(args)
    /\ ret = NoRet

DetectPeaks ==
    /\ pc = "call"
    /\ op = "detect_peaks"
    /\ ret' = detect_peaks(args.x, args.mph, args.mpd, args.threshold,
                            args.left_threshold, args.right_threshold,
                            args.prominence, args.edge, args.kpsh,
                            args.valley, env.ties)
    /\ pc' = "done"
    /\ UNCHANGED <<op, args, env>>

NextPeaks == DetectPeaks

SpecPeaks == InitPeaks /\ [][NextPeaks]_vars

InitEcg ==
    /\ pc = "call"
    /\ ret = NoRet
    /\ \/ /\ op = "is_ecg_signal"
          /\ args \in IsEcgArgs
          /\ env \in EcgEnv(tot_level_is_ecg(args.fs), args.s, args.fs)
       \/ /\ op = "wavelet_denoise"
          /\ args \in DenoiseArgs
          /\ env \in EcgEnv(tot_level_denoise(args.fs), args.s, args.fs)

IsEcgSignal ==
    /\ pc = "call"
    /\ op = "is_ecg_signal"
    /\ ret' = is_ecg_signal(args.s, args.fs, env)
    /\ pc' = "done"
    /\ UNCHANGED <<op, args, env>>

WaveletDenoise ==
    /\ pc = "call"
    /\ op = "wavelet_denoise"
    /\ ret' = wavelet_denoise(args.s, args.fs, args.amplify_mode, args.sides_mode,
                              args.cval, args.standard_ecg_amplitude,
                              args.need_amplification_threshold, env)
    /\ pc' = "done"
    /\ UNCHANGED <<op, args, env>>

NextEcg == IsEcgSignal \/ WaveletDenoise

SpecEcg == InitEcg /\ [][NextEcg]_vars

InitFilter ==
    /\ pc = "call"
    /\ op = "butter_bandpass"
    /\ args \in FilterArgs
    /\ env = NoEnv
    /\ ret = NoRet

ButterBandpass ==
    /\ pc = "call"
    /\ op = "butter_bandpass"
    /\ ret' = butter_bandpass(args.lowcut, args.highcut, args.fs, args.order)
    /\ pc' = "done"
    /\ UNCHANGED <<op, args, env>>

NextFilter == ButterBandpass

SpecFilter == InitFilter /\ [][NextFilter]_vars

InitResample ==
    /\ pc = "call"
    /\ env \in ResampleEnvs
    /\ \E c \in ResampleCalls(env) : op = c.op /\ args = c.args
    /\ ret = NoRet

\* the dict object the call was given, written back where it lives
StoreKw(e, kw, name, interp_kw) ==
    IF kw = "caller" THEN [e EXCEPT !.caller_kw = interp_kw]
    ELSE [e EXCEPT ![name] = interp_kw]

ResampleIrregularTimeseries ==
    /\ pc = "call"
    /\ op = "resample_irregular_timeseries"
    /\ LET r == resample_irregular_timeseries(args.s, args.method, args.interp_kw)
       IN  /\ ret' = r.ret
           /\ env' = StoreKw(env, args.kw, "default_kw", r.interp_kw)
    /\ pc' = "done"
    /\ UNCHANGED <<op, args>>

ResampleDiscontinuousIrregularTimeseries ==
    /\ pc = "call"
    /\ op = "resample_discontinuous_irregular_timeseries"
    /\ LET r == resample_discontinuous_irregular_timeseries(args.s, args.method,
                                                            args.interp_kw)
       IN  /\ ret' = r.ret
           /\ env' = StoreKw(env, args.kw, "default_kw_discontinuous", r.interp_kw)
    /\ pc' = "done"
    /\ UNCHANGED <<op, args>>

\* the caller makes its next call in the same process
NextCall ==
    /\ pc = "done"
    /\ op \in {"resample_irregular_timeseries",
                "resample_discontinuous_irregular_timeseries"}
    /\ env.calls < MaxCalls
    /\ \E c \in ResampleCalls(env) : op' = c.op /\ args' = c.args
    /\ env' = [env EXCEPT !.calls = @ + 1]
    /\ ret' = NoRet
    /\ pc' = "call"

NextResample ==
    \/ ResampleIrregularTimeseries
    \/ ResampleDiscontinuousIrregularTimeseries
    \/ NextCall

SpecResample == InitResample /\ [][NextResample]_vars

Init == InitPeaks \/ InitEcg \/ InitFilter \/ InitResample

Next ==
    \/ DetectPeaks
    \/ IsEcgSignal
    \/ WaveletDenoise
    \/ ButterBandpass
    \/ ResampleIrregularTimeseries
    \/ ResampleDiscontinuousIrregularTimeseries
    \/ NextCall

Spec == Init /\ [][Next]_vars

\* ------------------------------------------------------------- properties
Returned(name) == pc = "done" /\ op = name /\ ret.kind # "raise"

StrictlyIncreasing(q) == \A k \in 1..Len(q) - 1 : q[k] < q[k + 1]

Abs(v) == IF v < 0 THEN 0 - v ELSE v

\* C1: the index array detect_peaks returns is strictly increasing and every
\* index i in it satisfies 0 <= i < len(x), whatever the parameters are.
C1_SortedInBounds ==
    Returned("detect_peaks") =>
        /\ StrictlyIncreasing(ret.ind)
        /\ \A i \in Range(ret.ind) : 0 <= i /\ i < Len(args.x)

\* two peaks survived the suppression by distance of line 232-242
C1_Witness ==
    /\ Returned("detect_peaks")
    /\ args.mpd > 1
    /\ Len(ret.ind) >= 2

\* C2: for mpd > 0, two distinct returned indices are at least mpd samples
\* apart, unless kpsh is set and the two samples are equal.
C2_MinDistance ==
    (Returned("detect_peaks") /\ args.mpd > 0) =>
        \A i, j \in Range(ret.ind) :
            i # j => \/ Abs(i - j) >= args.mpd
                     \/ args.kpsh /\ At(args.x, i) = At(args.x, j)

\* a candidate was suppressed by a higher one closer than mpd
C2_Witness ==
    /\ Returned("detect_peaks")
    /\ args.mpd > 1
    /\ ~ args.kpsh
    /\ args.edge = "both"
    /\ ~ args.valley
    /\ Len(ret.ind) >= 1
    /\ \E i \in Range(ret.ind), j \in ife(args.x) \ Range(ret.ind) :
          /\ Abs(i - j) < args.mpd
          /\ At(args.x, j) = At(args.x, i)
          /\ args.mpd <= j /\ j < Len(args.x) - args.mpd

\* C3: detect_peaks(x, valley=True, mph=m) returns what
\* detect_peaks(-x, valley=False, mph=-m) returns, the other parameters being
\* the same; also when mph is not given.
C3_ValleyIsNegatedPeak ==
    (pc = "done" /\ op = "detect_peaks" /\ args.valley) =>
        ret = detect_peaks(NegData(args.x),
                           IF args.mph.some THEN Some(0 - args.mph.v) ELSE None,
                           args.mpd, args.threshold, args.left_threshold,
                           args.right_threshold, args.prominence, args.edge,
                           args.kpsh, FALSE, env.ties)

\* a valley above the negated height limit was found while another was
\* rejected by it
C3_Witness ==
    /\ Returned("detect_peaks")
    /\ args.valley
    /\ args.mph.some
    /\ Len(args.x) >= 3
    /\ ret.ind # << >>
    /\ \E i \in 0..Len(args.x) - 1 : At(args.x, i) # NaN /\ 0 - At(args.x, i) < 0 - args.mph.v

\* C4: on an input of fewer than 3 samples detect_peaks returns an empty
\* index array and does not raise, whatever the other parameters are.
C4_ShortInputEmpty ==
    (pc = "done" /\ op = "detect_peaks" /\ Len(args.x) < 3) =>
        ret.kind = "array" /\ ret.ind = << >>

\* a rising sample of a 2-sample input, with no border to discard it
C4_Witness ==
    /\ Returned("detect_peaks")
    /\ args.x = <<0, 1>>
    /\ args.mpd = 0
    /\ args.edge = "rising"
    /\ ret.ind = << >>

IsDocExampleCall ==
    /\ op = "detect_peaks"
    /\ args.x = DocExample
    /\ args.mpd = 2
    /\ ~ args.mph.some /\ ~ args.prominence.some
    /\ args.threshold = 0 /\ args.left_threshold = 0 /\ args.right_threshold = 0
    /\ args.edge = "rising" /\ ~ args.kpsh /\ ~ args.valley

\* the local maxima of x minus those the distance rule alone suppresses
DistanceRuleOnly(x, mpd, ties) ==
    LET sorted == SortByHeight(ire(x), x, ties)
        RECURSIVE Rule(_, _)
        Rule(i, gone) ==
            IF i > Len(sorted) THEN gone
            ELSE IF sorted[i] \in gone THEN Rule(i + 1, gone)
                 ELSE Rule(i + 1, gone \cup {q \in Range(sorted) \ {sorted[i]} :
                                               Abs(q - sorted[i]) <= mpd})
    IN  SortedSeq(ire(x) \ Rule(1, {}))

\* C5 as claimed: detect_peaks([0,1,0,2,0,3,0,2,0,1,0], mpd=2) returns the
\* local maxima [1,3,5,7,9] minus exactly the entries the distance rule
\* suppresses, that is [1,5,9].
C5_Original ==
    (pc = "done" /\ IsDocExampleCall) =>
        /\ ire(DocExample) = {1, 3, 5, 7, 9}
        /\ ret.ind = DistanceRuleOnly(DocExample, 2, env.ties)

\* C5 amended: the call returns [5]: of the local maxima [1,3,5,7,9], 1 and
\* 9 are discarded for lying within mpd samples of a border, 3 and 7 are
\* suppressed by the higher peak 5 within 2 samples.
C5_DocExample ==
    (pc = "done" /\ IsDocExampleCall) =>
        /\ ire(DocExample) = {1, 3, 5, 7, 9}
        /\ ret.kind = "array"
        /\ ret.ind = <<5>>
        /\ {i \in {1, 3, 5, 7, 9} : ~ (2 <= i /\ i < 11 - 2)} = {1, 9}
        /\ {i \in {3, 7} : Abs(i - 5) <= 2 /\ At(DocExample, i) < At(DocExample, 5)} = {3, 7}

C5_Witness == pc = "done" /\ IsDocExampleCall /\ ret.ind = <<5>>

\* C6: an edge value other than "rising", "falling", "both" or None is
\* reported to the caller as an error; no index array is returned (stated
\* for the inputs long enough for the edge mode to be looked at).
C6_InvalidEdgeRaises ==
    (pc = "done" /\ op = "detect_peaks" /\ Len(args.x) >= 3
        /\ args.edge \notin {"rising", "falling", "both", "None"}) =>
        ret.kind = "raise"

\* C7: is_ecg_signal on a signal of fewer than 2^tot_level samples returns
\* False, computes no wavelet coefficients and does not raise.
C7_ShortSignalFalse ==
    (pc = "done" /\ op = "is_ecg_signal"
        /\ LET k == qrs_levels(args.fs)[2]
           IN  IF k >= 0 THEN Len(args.s) < 2 ^ k ELSE Len(args.s) < 1) =>
        /\ ret.kind = "return"
        /\ ret.value = FALSE
        /\ ret.swt = FALSE

\* a signal one sample short of the 2^2 samples needed at 41 Hz
C7_Witness ==
    /\ pc = "done"
    /\ op = "is_ecg_signal"
    /\ args.fs = 41
    /\ Len(args.s) = 3
    /\ ret.kind = "return"
    /\ ret.value = FALSE

Classified == IF op = "is_ecg_signal" THEN ret.value ELSE ret.is_ecg

\* C8: with n beat candidates on an envelope of D ms (D = 1000*len/fs), the
\* confidence is 1.0 if D/1500 <= n <= D/300, else 0.4 if
\* D/3000 <= n <= D/200, else 0, in is_ecg_signal and in wavelet_denoise
\* alike; the signal is classified as ECG iff the confidence is >= 1.0.
C8_Confidence ==
    (pc = "done" /\ op \in {"is_ecg_signal", "wavelet_denoise"}
        /\ ret.kind = "return" /\ ret.swt) =>
        LET D1000 == 1000 * ret.power_len
            nfs == ret.n * args.fs
        IN  /\ ret.confidence =
                  IF D1000 <= 1500 * nfs /\ 300 * nfs <= D1000 THEN 10
                  ELSE IF D1000 <= 3000 * nfs /\ 200 * nfs <= D1000 THEN 4
                  ELSE 0
            /\ Classified <=> ret.confidence >= 10

\* too many beats for the reasonable band, but a valid rate: not ECG
C8_Witness ==
    /\ pc = "done"
    /\ op = "wavelet_denoise"
    /\ ret.kind = "return"
    /\ ret.swt
    /\ ret.confidence = 4
    /\ 300 * ret.n * args.fs > 1000 * ret.power_len
    /\ ~ ret.is_ecg

IsNoneCall ==
    /\ pc = "done"
    /\ op = "wavelet_denoise"
    /\ args.amplify_mode = "none"
    /\ ret.kind = "return"

\* C9 as claimed: with amplify_mode="none" the returned amplified_ratio is
\* exactly 1.0 or NaN.
C9_Original ==
    IsNoneCall => IsOne(ret.amplified_ratio) \/ IsNaNRatio(ret.amplified_ratio)

\* the 75th percentile of the beat swings, from the returned beats
ReturnedAmplitude ==
    Percentile(BeatSwings(args.s, ret.raw_r_peaks, args.fs), 75)

\* C9 amended: with amplify_mode="none" the returned amplified_ratio is NaN
\* if the signal is not classified as ECG (1.0 if it is too short), and
\* otherwise the ratio every mode reports: standard_ecg_amplitude / A if the
\* beat amplitude A is below need_amplification_threshold, else 1.0.
C9_NoneModeRatio ==
    IsNoneCall =>
        LET r == ret.amplified_ratio
        IN  /\ ~ ret.swt => IsOne(r)
            /\ (ret.swt /\ ~ ret.is_ecg) => IsNaNRatio(r)
            /\ ret.is_ecg =>
                  LET A == ReturnedAmplitude
                  IN  IF A # NaN /\ A < args.need_amplification_threshold
                      THEN IF A = 0 THEN r.kind = "inf"
                           ELSE r.kind = "num"
                                /\ r.num * A = r.den * args.standard_ecg_amplitude
                      ELSE IsOne(r)

\* the ECG of amplitude 200 < 500: ratio 1100/200 though nothing is amplified
C9_Witness ==
    /\ IsNoneCall
    /\ ret.is_ecg
    /\ ReturnedAmplitude = 200
    /\ ret.amplified_ratio = Ratio(1100, 200)
    /\ ~ ret.rec

\* C10: with amplify_mode="none", or a ratio that is not above 1.0, the
\* returned amplified_signal equals the input sample by sample and has its
\* length; no reconstruction and no boundary correction took place.
C10_CopyOfInput ==
    (pc = "done" /\ op = "wavelet_denoise" /\ ret.kind = "return"
        /\ (args.amplify_mode = "none" \/ ~ GtOne(ret.amplified_ratio))) =>
        /\ Len(ret.amplified_signal) = Len(args.s)
        /\ \A k \in 1..Len(args.s) : ret.amplified_signal[k] = args.s[k]
        /\ ~ ret.rec

\* an ECG that needs amplification, with amplify_mode="none"
C10_Witness ==
    /\ IsNoneCall
    /\ ret.is_ecg
    /\ GtOne(ret.amplified_ratio)
    /\ args.sides_mode = "constant"
    /\ ret.amplified_signal = args.s

DenoiseReturned == pc = "done" /\ op = "wavelet_denoise" /\ ret.kind = "return"

\* C11: when wavelet_denoise reconstructs the amplified signal with
\* sides_mode="constant" and cval=c, the returned amplified_signal has the
\* length of the input, its first side_len and its last side_len samples are
\* c, and every sample in between is the sample of the rounded
\* reconstruction at the same position.
C11_ConstantSides ==
    (DenoiseReturned /\ ret.rec /\ args.sides_mode = "constant") =>
        LET n == Len(args.s)
            sl == ret.side_len
        IN  /\ Len(ret.amplified_signal) = n
            /\ \A i \in 0..n - 1 :
                  At(ret.amplified_signal, i) =
                      IF i < sl \/ i >= n - sl THEN args.cval ELSE At(env.s_rec, i)

\* a reconstruction none of whose samples is cval: both borders were
\* overwritten, the two samples next to them were not
C11_Witness ==
    /\ DenoiseReturned
    /\ ret.rec
    /\ args.sides_mode = "constant"
    /\ ret.side_len > 0
    /\ \A k \in 1..Len(env.s_rec) : env.s_rec[k] # args.cval
    /\ At(ret.amplified_signal, 0) = args.cval
    /\ At(ret.amplified_signal, Len(args.s) - 1) = args.cval
    /\ At(ret.amplified_signal, ret.side_len) = At(env.s_rec, ret.side_len)
    /\ At(ret.amplified_signal, Len(args.s) - ret.side_len - 1)
          = At(env.s_rec, Len(args.s) - ret.side_len - 1)

DenoiseDone == pc = "done" /\ op = "wavelet_denoise"

ValidOptions ==
    /\ args.amplify_mode \in {"ecg", "qrs", "all", "none"}
    /\ args.sides_mode \in {"nearest", "mirror", "wrap", "constant", "no_slicing", "interp"}

\* C12: wavelet_denoise called with sides_mode="interp" (and a valid
\* amplify_mode) raises ValueError for every signal, fs and amplify_mode, and
\* never returns a result.
C12_InterpAlwaysRaises ==
    (DenoiseDone /\ args.sides_mode = "interp"
        /\ args.amplify_mode \in {"ecg", "qrs", "all", "none"}) =>
        ret.kind = "raise" /\ ret.error = "ValueError"

\* C13: wavelet_denoise called with an amplify_mode outside
\* {ecg, qrs, all, none} or a sides_mode outside {nearest, mirror, wrap,
\* constant, no_slicing, interp} raises ValueError, whatever the signal and
\* fs are: also for a signal that is too short, and for an fs at which the
\* decomposition would raise another error.
C13_InvalidOptionsRaise ==
    (DenoiseDone /\ ~ ValidOptions) =>
        ret.kind = "raise" /\ ret.error = "ValueError"

\* an unknown sides_mode on a signal that is too short, which a valid call
\* answers with a result
C13_Witness ==
    /\ DenoiseDone
    /\ args.amplify_mode = "none"
    /\ args.sides_mode = "bogus"
    /\ Len(args.s) = 3
    /\ ret.kind = "raise"
    /\ ret.error = "ValueError"

\* C14: wavelet_denoise called with valid options on a signal shorter than
\* 2^tot_level samples (tot_level = ecg_levels[-1]+1) does not raise and
\* returns is_ecg False, an amplified_signal equal to the input sample by
\* sample, and an empty wavelet_coeffs list.
C14_TooShortSentinel ==
    (DenoiseDone /\ ValidOptions
        /\ Len(args.s) < 2 ^ (ecg_levels(args.fs)[2] + 1)) =>
        /\ ret.kind = "return"
        /\ ~ ret.is_ecg
        /\ Len(ret.amplified_signal) = Len(args.s)
        /\ \A k \in 1..Len(args.s) : ret.amplified_signal[k] = args.s[k]
        /\ ret.wavelet_coeffs = 0

\* one sample short of the 2^8 samples needed at 41 Hz
C14_Witness ==
    /\ DenoiseReturned
    /\ args.fs = 41
    /\ Len(args.s) = 255
    /\ ~ IsZero(args.s)
    /\ ~ ret.is_ecg
    /\ ret.wavelet_coeffs = 0
    /\ ret.amplified_signal = args.s

\* the beat candidates on the envelope, before the shift
EnvelopeCandidates ==
    detect_peaks(env.qrs_power, None, args.fs \div 10,
                 qrs_amp_threshold(env.qrs_power, args.fs), 0, 0,
                 None, "rising", FALSE, FALSE, env.ties).ind

\* C15: when the classification inside wavelet_denoise fails (the
\* decomposition was computed and the confidence is below 1.0), the result
\* has is_ecg False, amplified_ratio NaN, an amplified_signal equal to the
\* input, raw_r_peaks equal to the beat candidates of the envelope each
\* shifted by side_len = 2*int(0.3*fs), and a wavelet_coeffs stack of
\* tot_level = ecg_levels[-1]+1 levels.
C15_NotEcgResult ==
    (DenoiseReturned /\ ret.swt /\ ret.confidence < 10) =>
        /\ ~ ret.is_ecg
        /\ IsNaNRatio(ret.amplified_ratio)
        /\ ret.amplified_signal = args.s
        /\ ret.side_len = 2 * ((3 * args.fs) \div 10)
        /\ \A candidates \in {EnvelopeCandidates} :
              /\ Len(ret.raw_r_peaks) = Len(candidates)
              /\ \A k \in 1..Len(candidates) :
                    ret.raw_r_peaks[k] = candidates[k] + ret.side_len
        /\ ret.wavelet_coeffs = ecg_levels(args.fs)[2] + 1

\* too many beat candidates: not an ECG, the candidates are returned shifted
C15_Witness ==
    /\ DenoiseReturned
    /\ ret.swt
    /\ ~ ret.is_ecg
    /\ Len(ret.raw_r_peaks) >= 2
    /\ ret.side_len > 0
    /\ ret.raw_r_peaks[1] = EnvelopeCandidates[1] + ret.side_len
    /\ IsNaNRatio(ret.amplified_ratio)

\* C16: when wavelet_denoise classifies the signal as ECG and returns, with
\* A the 75th percentile of the swings of the signal around the returned
\* beats: amplified_ratio is standard_ecg_amplitude / A (inf for A = 0) if
\* A < need_amplification_threshold, and exactly 1.0 otherwise, in every
\* amplify_mode.
C16_RatioOfEcg ==
    (DenoiseReturned /\ ret.is_ecg) =>
        LET r == ret.amplified_ratio
            A == ReturnedAmplitude
        IN  IF A # NaN /\ A < args.need_amplification_threshold
            THEN IF A = 0 THEN r.kind = "inf"
                 ELSE r.kind = "num" /\ r.num * A = r.den * args.standard_ecg_amplitude
            ELSE r.kind = "num" /\ r.num = r.den

\* an ECG whose amplitude is exactly the threshold: ratio 1.0
C16_Witness ==
    /\ DenoiseReturned
    /\ ret.is_ecg
    /\ args.amplify_mode = "all"
    /\ ReturnedAmplitude = args.need_amplification_threshold
    /\ IsOne(ret.amplified_ratio)
    /\ ~ ret.rec

\* the bounds of the level range of the mode, as lines 1000-1005 set them
ModeRange ==
    IF args.amplify_mode = "ecg"
    THEN <<ecg_levels(args.fs)[1], ecg_levels(args.fs)[2] - 2>>
    ELSE IF args.amplify_mode = "qrs"
    THEN <<qrs_levels(args.fs)[1] - 1, qrs_levels(args.fs)[2] + 1>>
    ELSE <<1, ecg_levels(args.fs)[2] + 1>>

\* C17 as claimed: when wavelet_denoise amplifies, the levels whose detail
\* coefficients are multiplied by the ratio are those of the range of the
\* mode, both bounds included.
C17_Original ==
    (DenoiseReturned /\ ret.rec) =>
        ret.levels = {lv \in LevelRange : ModeRange[1] <= lv /\ lv <= ModeRange[2]}

\* the call reaches line 996 with amplify_mode != none and a ratio > 1.0
Amplifies ==
    /\ ValidOptions
    /\ args.amplify_mode # "none"
    /\ ~ TooShort(tot_level_denoise(args.fs), Len(args.s))
    /\ \E q \in {QrsStage(Len(args.s), args.fs, tot_level_denoise(args.fs), env)} :
           /\ q.kind = "ok"
           /\ q.confidence >= is_ecg_confidence_threshold
           /\ GtOne(amplify_ratio(
                  Percentile(BeatSwings(args.s, Shift(q.raw_r_peaks, slice_len(args.fs)),
                                        args.fs), 75),
                  args.standard_ecg_amplitude, args.need_amplification_threshold))

\* C17 amended: when wavelet_denoise amplifies, the levels whose detail
\* coefficients are multiplied by the ratio are those of the range of the
\* mode with its upper bound excluded (ecg: ecg_levels[0]..ecg_levels[-1]-3,
\* qrs: qrs_levels[0]-1..qrs_levels[-1], all: 1..ecg_levels[-1]); they are
\* levels of the decomposition and every other level keeps its coefficients.
\* If that range holds a level below 1 the call raises IndexError instead,
\* and with sides_mode="interp" it raises ValueError after the amplification.
C17_HalfOpenLevels ==
    (DenoiseDone /\ Amplifies) =>
        LET lo == ModeRange[1]
            hi == ModeRange[2]
            tot == ecg_levels(args.fs)[2] + 1
        IN  IF lo < hi /\ lo < 1
            THEN ret.kind = "raise" /\ ret.error = "IndexError"
            ELSE IF args.sides_mode = "interp"
            THEN ret.kind = "raise" /\ ret.error = "ValueError"
            ELSE /\ ret.kind = "return"
                 /\ ret.rec
                 /\ ret.levels = lo..(hi - 1)
                 /\ ret.levels \subseteq 1..tot
                 /\ ret.wavelet_coeffs = tot

\* mode ecg at 100 Hz: levels 1..5 are amplified, level 6 = ecg_levels[-1]-2
\* is not
C17_Witness ==
    /\ DenoiseReturned
    /\ ret.rec
    /\ args.amplify_mode = "ecg"
    /\ ModeRange = <<1, 6>>
    /\ ret.levels = 1..5

\* C18: butter_bandpass returns the all-pass coefficients ([1], [1])
\* whenever the normalized cutoffs bracket the whole Nyquist range, that is
\* lowcut/(fs/2) <= 0 and highcut/(fs/2) >= 1, for every filter order.
C18_AllPass ==
    (pc = "done" /\ op = "butter_bandpass" /\ args.fs # 0
        /\ args.lowcut * args.fs <= 0
        /\ 2 * args.highcut * args.fs >= args.fs * args.fs) =>
        /\ ret.kind = "coeffs"
        /\ ret.b = <<1>>
        /\ ret.a = <<1>>

\* the two cutoffs exactly on the limits: low = 0 and high = 1
C18_Witness ==
    /\ pc = "done"
    /\ op = "butter_bandpass"
    /\ args.lowcut = 0
    /\ args.fs > 0
    /\ 2 * args.highcut = args.fs
    /\ args.order = 2
    /\ ret.kind = "coeffs"
    /\ ret.b = <<1>>

\* what the call in progress returns in a process that has made no call
FreshResult ==
    IF op = "resample_irregular_timeseries"
    THEN resample_irregular_timeseries(args.s, args.method, EmptyKw).ret
    ELSE resample_discontinuous_irregular_timeseries(args.s, args.method, EmptyKw).ret

\* C19: no state is carried between calls and no argument is mutated: after
\* a call that was given the caller's interp_kw the dict holds what it held
\* when the call was made, and a call that leaves interp_kw to its default
\* returns what it returns as the first call of a fresh process, whatever
\* calls were made before.
C19_NoStateCarried ==
    (pc = "done" /\ op \in {"resample_irregular_timeseries",
                             "resample_discontinuous_irregular_timeseries"}) =>
        /\ args.kw = "caller" => env.caller_kw = args.interp_kw
        /\ args.kw = "default" => ret = FreshResult

\* the thresholds in effect on the two sides (lines 215-216)
EffectiveLeft == IF args.left_threshold > 0 THEN args.left_threshold ELSE args.threshold
EffectiveRight == IF args.right_threshold > 0 THEN args.right_threshold ELSE args.threshold

\* the data the filters work on, and the candidates the threshold step is
\* given
FilterData == InfData(ValleyData(args.x, args.valley))
BeforeThreshold ==
    MphFilter(BorderFilter(NanFilter(Candidates(ValleyData(args.x, args.valley), args.edge),
                                      ValleyData(args.x, args.valley)),
                           Len(args.x), args.mpd),
              FilterData, ValleyMph(args.mph, args.valley))

Searched == ValleyData(args.x, args.valley)
RiseTo(i) == IF i = 0 THEN 0 ELSE At(Searched, i) - At(Searched, i - 1)
RiseFrom(i) == IF i = Len(args.x) - 1 THEN 0 ELSE At(Searched, i + 1) - At(Searched, i)

\* the samples that are neither NaN nor next to a NaN, the border of mpd
\* samples left out
AwayFromNaN ==
    {i \in args.mpd..(Len(args.x) - 1 - args.mpd) :
        \A j \in (i - 1)..(i + 1) : (0 <= j /\ j < Len(args.x)) => At(args.x, j) # NaN}

\* the call leaves every filter but those of the NaN's and of the border
\* without effect
OnlyCandidates ==
    /\ Returned("detect_peaks")
    /\ Len(args.x) >= 3
    /\ args.mpd <= 1
    /\ ~ args.mph.some
    /\ ~ args.prominence.some
    /\ args.threshold = 0 /\ args.left_threshold = 0 /\ args.right_threshold = 0

\* C21: the candidates of detect_peaks are, for edge="rising", the indices i
\* with x[i]-x[i-1] > 0 and x[i+1]-x[i] <= 0; for edge="falling" those with
\* x[i]-x[i-1] >= 0 and x[i+1]-x[i] < 0; for edge="both" the union of the
\* two; for edge=None those with both differences strict, so that no sample
\* of a flat top is a candidate.  With mpd <= 1 and no other filter set they
\* are what the call returns, of the samples away from a NaN and from the
\* border.
C21_CandidatesByEdge ==
    (OnlyCandidates /\ args.edge \in {"rising", "falling", "both", "None"}) =>
        LET rising == {i \in AwayFromNaN : RiseTo(i) > 0 /\ RiseFrom(i) <= 0}
            falling == {i \in AwayFromNaN : RiseTo(i) >= 0 /\ RiseFrom(i) < 0}
            strict == {i \in AwayFromNaN : RiseTo(i) > 0 /\ RiseFrom(i) < 0}
        IN  Range(ret.ind) = CASE args.edge = "rising" -> rising
                               [] args.edge = "falling" -> falling
                               [] args.edge = "both" -> rising \cup falling
                               [] args.edge = "None" -> strict

\* edge=None on a signal with a flat top and a strict maximum: the maximum
\* is returned, no sample of the flat top is
C21_Witness ==
    /\ OnlyCandidates
    /\ args.edge = "None"
    /\ ~ args.valley
    /\ Len(ret.ind) >= 1
    /\ \E i \in AwayFromNaN :
          /\ RiseTo(i) > 0
          /\ RiseFrom(i) = 0
          /\ i \notin Range(ret.ind)
          /\ i + 1 \notin Range(ret.ind)

\* C22: for every input and every parameter combination, each index i that
\* detect_peaks returns holds the maximum of the window x[i-mpd .. i+mpd]
\* (of the negated data when valley is set): the window lies inside the
\* input, holds no NaN, and none of its samples is higher than sample i.
C22_WindowMaximum ==
    Returned("detect_peaks") =>
        \A i \in Range(ret.ind) : \A k \in (i - args.mpd)..(i + args.mpd) :
            /\ 0 <= k /\ k < Len(args.x)
            /\ At(Searched, k) # NaN
            /\ At(Searched, k) <= At(Searched, i)

\* mpd = 2: the returned peak shares its height with another sample of its
\* window and has a lower sample on either side
C22_Witness ==
    /\ Returned("detect_peaks")
    /\ args.mpd = 2
    /\ \E i \in Range(ret.ind) :
          /\ \E k \in {i - 2, i - 1, i + 1, i + 2} : At(Searched, k) = At(Searched, i)
          /\ \E k \in {i - 2, i - 1} : At(Searched, k) < At(Searched, i)
          /\ \E k \in {i + 1, i + 2} : At(Searched, k) < At(Searched, i)

\* C23: every index i that detect_peaks returns satisfies
\* mpd <= i < len(x) - mpd: the candidates within mpd samples of either
\* border are discarded, so every peak has mpd samples on both sides.
C23_AwayFromBorder ==
    Returned("detect_peaks") =>
        \A i \in Range(ret.ind) : args.mpd <= i /\ i < Len(args.x) - args.mpd

\* the last sample ends a rise and is a candidate, the border filter
\* discards it, and a peak further inside is returned
C23_Witness ==
    /\ Returned("detect_peaks")
    /\ args.mpd = 2
    /\ args.edge = "rising"
    /\ ~ args.valley
    /\ Len(args.x) - 1 \in ire(args.x)
    /\ Len(args.x) - 1 \notin Range(ret.ind)
    /\ Len(ret.ind) >= 1

HasNaN(x) == \E k \in 1..Len(x) : x[k] = NaN

\* C24: on an input that holds NaN samples detect_peaks returns neither the
\* index of a NaN sample nor an index next to one (i-1 or i+1), and, called
\* with a positive mpd as documented, it does not raise.
C24_NaNNeverPeak ==
    (pc = "done" /\ op = "detect_peaks" /\ HasNaN(args.x)) =>
        /\ args.mpd >= 1 => ret.kind = "array"
        /\ ret.kind = "array" =>
              \A i \in Range(ret.ind) : \A j \in {i - 1, i, i + 1} :
                  (0 <= j /\ j < Len(args.x)) => At(args.x, j) # NaN

\* the sample after a NaN ends the rise from it and is a candidate of line
\* 178; it is not returned, a peak away from the NaN is
C24_Witness ==
    /\ Returned("detect_peaks")
    /\ args.edge = "rising"
    /\ ~ args.valley
    /\ Len(ret.ind) >= 1
    /\ \E j \in ire(args.x) :
          /\ j >= 1
          /\ At(args.x, j - 1) = NaN
          /\ j \notin Range(ret.ind)

\* floor(log2(fs/fHigh)) and ceil(log2(fs/fLow)) of the band 10-40 Hz, the
\* opposite roundings of the same band, and the levels of the band
\* 0.5-45 Hz
QrsBandOuter == <<FloorLog2(args.fs, 40), CeilLog2(args.fs, 10)>>
QrsBandInner == <<CeilLog2(args.fs, 40), FloorLog2(args.fs, 10)>>
EcgBand == <<FloorLog2(args.fs, 45), CeilLog2(2 * args.fs, 1)>>

\* what the calls show of the levels [lo, hi] of the QRS band and of those
\* of the ECG band: is_ecg_signal decomposes to depth hi, finds a signal of
\* fewer than 2^hi samples too short and cannot reconstruct a level below 1;
\* wavelet_denoise decomposes to the upper ECG level plus one and amplifies
\* lo-1..hi in mode qrs and the ECG levels less the upper three in mode ecg
LevelsInUse(qrs, ecg) ==
    /\ (pc = "done" /\ op = "is_ecg_signal") =>
          /\ (ret.kind = "return" /\ ~ ret.swt) <=> TooShort(qrs[2], Len(args.s))
          /\ (~ TooShort(qrs[2], Len(args.s)) /\ qrs[2] >= 1) =>
                (ret.kind = "raise" <=> qrs[1] < 1)
    /\ (DenoiseDone /\ ValidOptions) =>
          /\ (ret.kind = "return" /\ ~ ret.swt) <=> TooShort(ecg[2] + 1, Len(args.s))
          /\ (ret.kind = "return" /\ ret.swt) => ret.wavelet_coeffs = ecg[2] + 1
          /\ (ret.kind = "return" /\ ret.rec /\ args.amplify_mode = "qrs") =>
                ret.levels = (qrs[1] - 1)..qrs[2]
          /\ (ret.kind = "return" /\ ret.rec /\ args.amplify_mode = "ecg") =>
                ret.levels = ecg[1]..(ecg[2] - 3)

\* C25 as claimed: for every fs a band [fLow, fHigh] is mapped to the levels
\* [floor(log2(fs/fHigh)), ceil(log2(fs/fLow))], the QRS band 10-40 Hz and
\* the ECG band 0.5-45 Hz alike.
C25_Original == LevelsInUse(QrsBandOuter, EcgBand)

\* C25 amended: the ECG band 0.5-45 Hz is mapped to the levels
\* [floor(log2(fs/45)), ceil(log2(fs/0.5))]; the QRS band 10-40 Hz is mapped
\* to [ceil(log2(fs/40)), floor(log2(fs/10))], the levels whose band lies
\* inside 10-40 Hz, in is_ecg_signal and in wavelet_denoise.
C25_BandLevels == LevelsInUse(QrsBandInner, EcgBand)

\* mode qrs at 100 Hz amplifies the levels 1..3, that is
\* ceil(log2(2.5))-1 .. floor(log2(10)); floor and ceil would give 0..4
C25_Witness ==
    /\ DenoiseReturned
    /\ ret.rec
    /\ args.amplify_mode = "qrs"
    /\ args.fs = 100
    /\ QrsBandOuter = <<1, 4>>
    /\ ret.levels = 1..3

\* a/b rounded to the nearest integer (a half upwards)
RoundNearest(a, b) == (2 * a + b) \div (2 * b)

\* a/b with its fraction dropped
Truncated(a, b) == a \div b

\* what the calls show of step and radius: wavelet_denoise returns the
\* border length 2*radius; the envelope is the reconstruction less 2*radius
\* samples at each end (nothing of it is left when the signal has no more
\* than 4*radius samples); and the beat candidates are those of the peak
\* detector with mpd = step and the threshold of the windows of that radius
\* taken every step samples
WindowsInUse(step, radius) ==
    /\ DenoiseReturned => ret.side_len = 2 * radius
    /\ (pc = "done" /\ ret.kind = "return" /\ ret.swt) =>
          /\ ret.power_len = IF Len(args.s) > 4 * radius /\ radius > 0
                             THEN Len(args.s) - 4 * radius ELSE 0
          /\ \A found \in {detect_peaks(env.qrs_power, None, step,
                               Half(Percentile(Swings(env.qrs_power, radius, radius, step), 50)),
                               0, 0, None, "rising", FALSE, FALSE, env.ties)} :
                /\ found.kind = "array"
                /\ ret.n = Len(found.ind)
                /\ op = "wavelet_denoise" =>
                      \A k \in 1..Len(found.ind) :
                          ret.raw_r_peaks[k] = found.ind[k] + 2 * radius

\* C26 as claimed: for every integer fs, is_ecg_signal and wavelet_denoise
\* use windowRadius = round(0.3*fs) and step = round(0.1*fs), rounded to the
\* nearest integer, slice 2*windowRadius samples off each end of the
\* envelope and run the peak detector with mpd = step.
C26_Original ==
    WindowsInUse(RoundNearest(args.fs, 10), RoundNearest(3 * args.fs, 10))

\* C26 amended: is_ecg_signal and wavelet_denoise use
\* windowRadius = int(0.3*fs) and step = int(0.1*fs), the products with
\* their fraction dropped, slice 2*windowRadius samples off each end of the
\* envelope and run the peak detector with mpd = step.
C26_TruncatedWindows ==
    WindowsInUse(Truncated(args.fs, 10), Truncated(3 * args.fs, 10))

\* 46 Hz: the border is 2*13 = 26 samples, not 2*14, and the spikes 5
\* samples apart are all beat candidates with mpd = 4
C26_Witness ==
    /\ DenoiseReturned
    /\ ret.swt
    /\ args.fs = 46
    /\ ret.side_len = 26
    /\ Len(ret.raw_r_peaks) >= 2
    /\ ret.raw_r_peaks[2] - ret.raw_r_peaks[1] = 5

\* the depth of the decomposition of the call
Depth == IF op = "is_ecg_signal" THEN FloorLog2(args.fs, 10) ELSE ret.wavelet_coeffs

\* C27: in is_ecg_signal and wavelet_denoise the buffer handed to the
\* wavelet transform is the input followed only by zeros, its length is the
\* smallest multiple of 2^tot_level that is >= len(signal), and a
\* reconstructed signal is cut to len(signal) samples before it is used or
\* returned: the amplified signal has the samples of the inverse transform
\* at the same positions (away from the corrected borders) and none of those
\* past len(signal).
C27_PaddingAndTruncation ==
    (pc = "done" /\ ret.kind = "return" /\ ret.swt) =>
        LET n == Len(args.s)
            base_len == 2 ^ Depth
            padded == ret.s_padded
        IN  /\ Len(padded) % base_len = 0
            /\ Len(padded) >= n
            /\ Len(padded) < n + base_len
            /\ \A k \in 1..Len(padded) : padded[k] = IF k <= n THEN args.s[k] ELSE 0
            /\ op = "wavelet_denoise" =>
                  /\ Len(ret.amplified_signal) = n
                  /\ ret.rec =>
                        \A i \in ret.side_len..(n - ret.side_len - 1) :
                            At(ret.amplified_signal, i) = At(env.s_rec, i)

\* 264 samples at depth 8: the buffer has 512 samples, the last 248 of them
\* zeros, and the amplified signal has the first 264 samples of the inverse
\* transform
C27_Witness ==
    /\ DenoiseReturned
    /\ ret.rec
    /\ Len(args.s) = 256 + ExtraLen
    /\ ret.wavelet_coeffs = 8
    /\ Len(ret.s_padded) = 512
    /\ Len(env.s_rec) = 512
    /\ Len(ret.amplified_signal) = 256 + ExtraLen
    /\ ~ IsZero(args.s)

\* C28: for every positive integer fs and every signal long enough to pass
\* the length check, every level that is_ecg_signal or wavelet_denoise uses
\* to index the coefficient stack (the QRS levels of the per-level
\* reconstructions, the levels each amplify_mode amplifies) is a level
\* 1..tot_level of the decomposition, and no call fails with IndexError.
C28_LevelsInsideStack ==
    (pc = "done" /\ op \in {"is_ecg_signal", "wavelet_denoise"} /\ args.fs > 0) =>
        /\ ~ (ret.kind = "raise" /\ ret.error = "IndexError")
        /\ (ret.kind = "return" /\ ret.swt) =>
              /\ 1 <= QrsBandInner[1]
              /\ QrsBandInner[2] <= Depth
              /\ op = "wavelet_denoise" => ret.levels \subseteq 1..Depth

C30_BeatsInsideSignal ==
    DenoiseReturned =>
        \A r \in Range(ret.raw_r_peaks) :
            LET step == Truncated(args.fs, 10)
            IN  /\ ret.side_len + step <= r
                /\ r < Len(args.s) - ret.side_len - step
                /\ 0 <= r - step
                /\ r + step <= Len(args.s) - 1

\* the envelope has a spike less than step_len samples from its start, which
\* is no beat candidate; the first beat returned is a later spike, shifted
\* by side_len
C30_Witness ==
    /\ DenoiseReturned
    /\ ret.swt
    /\ ret.side_len > 0
    /\ Len(ret.raw_r_peaks) >= 2
    /\ \E i \in 0..(Truncated(args.fs, 10) - 1) : At(env.qrs_power, i) = SpikeHeight
    /\ At(env.qrs_power, ret.raw_r_peaks[1] - ret.side_len) = SpikeHeight

====
